---- MODULE Spec2Model ----
(***************************************************************************)
(* Per-frame molecular-orbital job pipeline of nanoqm/schedule/components  *)
(* (calculate_mos, compute_orbitals, schedule_check, store_MOs,            *)
(* store_enery) executed as a noodles dependency graph.                    *)
(*                                                                         *)
(* calculate_mos builds the whole graph in one sequential loop (phase      *)
(* "build"); the graph is then run: a node may start as soon as the        *)
(* promises it takes as arguments are resolved.                            *)
(***************************************************************************)
EXTENDS Integers, Sequences, FiniteSets, TLC

\* ------------------------------------------------------------------ bounds
MaxFrames == 2          \* longest trajectory explored (len(config.geometries))
MaxEnumerateFrom == 1   \* largest config.enumerate_from explored

\* ------------------------------------------------------------------ state
VARIABLES
    config,                       \* immutable part of the DictConfig
    calc_new_wf_guess_on_points,  \* config.calc_new_wf_guess_on_points (a list, appended to at run time)
    hdf5,                         \* set of node paths present in config.path_hdf5
    hdf5_start,                   \* contents of the HDF5 file when calculate_mos was called
    writes,                       \* number of store_arrays_in_hdf5 calls made on each node path
    j_loop,                       \* loop index j of calculate_mos
    guess_job,                    \* local variable guess_job of calculate_mos
    orbitals,                     \* local list orbitals of calculate_mos
    energies,                     \* local list energies of calculate_mos
    jobs,                         \* solver jobs created by prepare_job_cp2k
    check,                        \* state of the schedule_check node of each frame
    st_MOs,                       \* store_MOs node of each frame: status, and the kind and round of the job it stored
    st_energy,                    \* store_enery node of each frame: status, and the kind and round of the job it stored
    molog,                        \* ASCII MOLog scratch file present in each directory point_k
    result,                       \* value of gather(gather(*orbitals), gather(*energies)) once resolved
    \* nac/schedule/components.py, calculate_mos
    nac_args,                     \* arguments: number of geometries, enumerate_from, calc_new_wf_guess_on_points
    nac_f5,                       \* set of node paths present in path_hdf5
    nac_j,                        \* loop index j
    nac_guess_job,                \* local variable guess_job
    nac_path_to_orbitals,         \* local list path_to_orbitals
    nac_jobs,                     \* jobs created by call_schedule_qm
    nac_result                    \* value of gather(*path_to_orbitals)

qmvars == <<config, calc_new_wf_guess_on_points, hdf5, hdf5_start, writes, j_loop,
            guess_job, orbitals, energies, jobs, check, st_MOs, st_energy, molog, result>>

nacvars == <<nac_args, nac_f5, nac_j, nac_guess_job, nac_path_to_orbitals, nac_jobs,
             nac_result>>

vars == <<qmvars, nacvars>>

\* ------------------------------------------------------------------ values
\* loop indices j: one more than the longest trajectory of Configs, for the
\* longer trajectories of NacArgs and of the three-frame scenario
FrameIdx == 0 .. MaxFrames
Warnings == {"none", "scf", "other"}   \* SCF_Convergence_Warning, another warning, or no warning
Leaves == {"eigenvalues", "coefficients", "energy"}

Range(s) == {s[i] : i \in DOMAIN s}

\* join(project_name, f'point_{k}', package, 'mo', leaf)
Path(k, package, leaf) == [point |-> k, package |-> package, leaf |-> leaf]

\* Promises and the None guess.  tag "check": the promise returned by
\* schedule_check for a frame; tag "guess": the promise of a guess-only job;
\* tag "main": the promise of a main job.
None == [tag |-> "None", frame |-> 0, round |-> 0]
CheckPromise(j) == [tag |-> "check", frame |-> j, round |-> 0]
GuessPromise(j, r) == [tag |-> "guess", frame |-> j, round |-> r]
MainPromise(j) == [tag |-> "main", frame |-> j, round |-> 0]

\* Job ids: frame, kind ("guess" = guess-only job, "main"), round (0 = built by
\* calculate_mos, 1 = built by schedule_check after a rejection)
JobIds == FrameIdx \X {"guess", "main"} \X {0, 1}
NoJob == [status |-> "absent", settings |-> "none", wfn |-> None, warnings |-> "none"]

\* ------------------------------------------------------------------ dict_input
K(j) == j + config.enumerate_from

node_MOs(j) == << Path(K(j), config.package_name, "eigenvalues"),
                  Path(K(j), config.package_name, "coefficients") >>

node_energy(j) == Path(K(j), config.package_name, "energy")

\* the directories point_k, named by k
PointDirs == 0 .. (MaxFrames + MaxEnumerateFrom)

\* variant: the folders are numbered from 0 whatever enumerate_from is
create_point_folder_from_zero(n, enumerate_from) == [i \in 1 .. n |-> i - 1]

\* create_point_folder(work_dir, n, enumerate_from): one directory point_k for
\* each k in range(enumerate_from, n + enumerate_from)
create_point_folder(n, enumerate_from) == [i \in 1 .. n |-> enumerate_from + (i - 1)]

\* config.folders, and dict_input["point_dir"] = config.folders[j]
folders == create_point_folder(config.n, config.enumerate_from)
point_dir(j) == folders[j + 1]

\* calculate_mos lines 100-103: the node paths whose presence decides the skip
predicate(j) == IF config.compute_orbitals THEN node_MOs(j) ELSE << node_energy(j) >>

\* variant: any() where the code has all()
search_data_in_hdf5_any(f5, paths_to_prop) ==
    \E i \in DOMAIN paths_to_prop : paths_to_prop[i] \in f5

\* all(path in f5 for path in paths_to_prop); a single path is a list of one
search_data_in_hdf5(f5, paths_to_prop) ==
    \A i \in DOMAIN paths_to_prop : paths_to_prop[i] \in f5

is_data_in_hdf5(f5, paths) == search_data_in_hdf5(f5, paths)

\* variant: the coefficients are stored under the path of the eigenvalues
dump_orbitals_to_hdf5_same_path(j) == << Path(K(j), "cp2k", "eigenvalues"),
                                         Path(K(j), "cp2k", "eigenvalues") >>

\* variant: the coefficients are not stored
dump_orbitals_to_hdf5_eigenvalues_only(j) == << Path(K(j), "cp2k", "eigenvalues") >>

\* paths written by dump_orbitals_to_hdf5(mos, path_hdf5, project_name, job_name)
\* with job_name = f'point_{k}': join(project_name, job_name, "cp2k/mo/...")
dump_orbitals_to_hdf5(j) == << Path(K(j), "cp2k", "eigenvalues"),
                               Path(K(j), "cp2k", "coefficients") >>

\* ------------------------------------------------------------------ job construction
\* prepare_job_cp2k(settings, dict_input, guess_job): a new solver job that
\* restarts its wave function from guess_job (None: from scratch)
prepare_job_cp2k(settings, g) ==
    [status |-> "scheduled", settings |-> settings, wfn |-> g, warnings |-> "none"]

\* config.calc_new_wf_guess_on_points is not None; the list is never None in a
\* run that gets this far ("k in None" raises in compute_orbitals)
compute_guess(points) == TRUE

is_restart(points, g) == g = None /\ compute_guess(points)

\* variant: a guess-only job only at the listed points
pred_points_only(points, k, g) == k \in Range(points)

pred(points, k, g) == (k \in Range(points)) \/ is_restart(points, g)

\* variant: the main job takes the guess passed to compute_orbitals
main_guess_prior(points, j, g, r) == g

\* The guess handed to the main job
main_guess(points, j, g, r) ==
    IF pred(points, K(j), g) THEN GuessPromise(j, r) ELSE g

\* compute_orbitals(config, dict_input, guess_job): the job table after the call.
\* r tells the two call sites apart (0: calculate_mos, 1: schedule_check).
compute_orbitals(js, points, j, g, r) ==
    LET js1 == IF pred(points, K(j), g)
               THEN [js EXCEPT ![<<j, "guess", r>>] =
                                   prepare_job_cp2k("cp2k_settings_guess", g)]
               ELSE js
    IN  [js1 EXCEPT ![<<j, "main", r>>] =
                        prepare_job_cp2k("cp2k_settings_main", main_guess(points, j, g, r))]

\* ------------------------------------------------------------------ promises
Building == j_loop < config.n
Running == j_loop = config.n /\ result.tag = "pending"

JobDone(id) == jobs[id].status = "done"

\* variant: any warning of the job counts as a convergence failure
scf_rejected_any_warning(w) == ~config.ignore_warnings /\ w # "none"

\* variant: the test on config.ignore_warnings inverted
scf_rejected_inverted(w) == config.ignore_warnings /\ w = "scf"

\* SCF convergence test of schedule_check on the warnings of a finished job
scf_rejected(w) == ~config.ignore_warnings /\ w = "scf"

\* variant: compute_orbitals returns the promise of the guess-only job
CheckedJob_guess(j) == IF check[j] = "rejected" THEN <<j, "guess", 1>> ELSE <<j, "guess", 0>>

\* The job whose result is the value of the promise returned by schedule_check:
\* the original main job, or the main job of the chain built after a rejection
CheckedJob(j) == IF check[j] = "rejected" THEN <<j, "main", 1>> ELSE <<j, "main", 0>>

\* the job whose result a promise stands for once it is resolved
PromisedJob(h) ==
    CASE h.tag = "guess" -> <<h.frame, "guess", h.round>>
      [] h.tag = "main"  -> <<h.frame, "main", h.round>>
      [] h.tag = "check" -> CheckedJob(h.frame)

\* variant: the promise of a rejected frame is never resolved
CheckResolved_accepted_only(j) == check[j] = "accepted"

\* variant: the promise is resolved as soon as schedule_check has returned
CheckResolved_early(j) == check[j] \in {"accepted", "rejected"}

\* schedule_check returns promise_qm, or the workflow of the corrective chain,
\* whose value is that of its main job
CheckResolved(j) ==
    \/ check[j] = "accepted"
    \/ check[j] = "rejected" /\ JobDone(<<j, "main", 1>>)

\* tag "main": the promise compute_orbitals returns, before schedule_check
Resolved(h) ==
    CASE h.tag = "None"  -> TRUE
      [] h.tag = "guess" -> JobDone(<<h.frame, "guess", h.round>>)
      [] h.tag = "main"  -> JobDone(<<h.frame, "main", h.round>>)
      [] h.tag = "check" -> CheckResolved(h.frame)

\* ------------------------------------------------------------------ initial state
EnumerateFroms == {0, MaxEnumerateFrom}
PackageNames == {"cp2k"}

Configs == [n : 1 .. MaxFrames, enumerate_from : EnumerateFroms,
            compute_orbitals : BOOLEAN, ignore_warnings : BOOLEAN,
            package_name : PackageNames]

\* the points of a configuration, and a set of them as an ascending list
Points(c) == c.enumerate_from .. (c.enumerate_from + c.n - 1)

RECURSIVE SortedSeq(_)
SortedSeq(S) ==
    IF S = {} THEN << >>
    ELSE LET m == CHOOSE x \in S : \A y \in S : x <= y
         IN  << m >> \o SortedSeq(S \ {m})

AllPaths(c) == {Path(k, c.package_name, l) : k \in Points(c), l \in Leaves}

\* the paths dump_orbitals_to_hdf5 can write for the points of a configuration
CP2KPaths(c) == {Path(k, "cp2k", l) : k \in Points(c), l \in Leaves}

NoStore == [status |-> "none", kind |-> "none", round |-> 0]

NoNacJob == [status |-> "absent", settings |-> "none", wfn |-> None, store_in_hdf5 |-> FALSE]

NoResult == [tag |-> "pending", orbitals |-> << >>, energies |-> << >>]

QmInit ==
    /\ config \in Configs
    /\ \E S \in SUBSET Points(config) : calc_new_wf_guess_on_points = SortedSeq(S)
    /\ hdf5 \in SUBSET AllPaths(config)
    /\ hdf5_start = hdf5
    /\ writes = [p \in AllPaths(config) \cup CP2KPaths(config) |-> 0]
    /\ j_loop = 0
    /\ guess_job = None
    /\ orbitals = << >>
    /\ energies = << >>
    /\ jobs = [id \in JobIds |-> NoJob]
    /\ check = [j \in FrameIdx |-> "none"]
    /\ st_MOs = [j \in FrameIdx |-> NoStore]
    /\ st_energy = [j \in FrameIdx |-> NoStore]
    /\ molog = [d \in PointDirs |-> FALSE]
    /\ result = NoResult

\* the nac pipeline is not run under Spec
NacIdle ==
    /\ nac_args = [n |-> 0, enumerate_from |-> 0, calc_new_wf_guess_on_points |-> {}]
    /\ nac_f5 = {}
    /\ nac_j = 0
    /\ nac_guess_job = None
    /\ nac_path_to_orbitals = << >>
    /\ nac_jobs = [id \in FrameIdx \X {"guess", "main"} |-> NoNacJob]
    /\ nac_result = NoResult

\* ------------------------------------------------------------------ calculate_mos
\* entries of the lists orbitals and energies: known paths, None, or the promise
\* of the store node of a frame
PathsEntry(ps) == [tag |-> "paths", paths |-> ps, frame |-> 0]
NoneEntry == [tag |-> "None", paths |-> << >>, frame |-> 0]
PromiseEntry(node, j) == [tag |-> node, paths |-> << >>, frame |-> j]

\* variant: a frame found in the HDF5 file resets guess_job
kept_guess_reset(g) == None

\* the cached branch of the loop (lines 105-106) does not assign guess_job
kept_guess(g) == g

\* variant: guess_job is the promise of the main job, not that of schedule_check
next_guess_unchecked(j) == MainPromise(j)

\* variant: guess_job is not updated after a frame
next_guess_stale(j) == guess_job

\* guess_job = promise_qm, the promise returned by schedule_check for frame j
next_guess(j) == CheckPromise(j)

\* one iteration of the loop of calculate_mos over config.geometries
ScheduleFrame ==
    /\ Building
    /\ LET j == j_loop IN
       IF is_data_in_hdf5(hdf5, predicate(j))
       THEN /\ orbitals' = Append(orbitals, PathsEntry(node_MOs(j)))
            /\ guess_job' = kept_guess(guess_job)
            /\ UNCHANGED <<energies, jobs, check, st_MOs, st_energy>>
       ELSE /\ jobs' = compute_orbitals(jobs, calc_new_wf_guess_on_points, j, guess_job, 0)
            /\ check' = [check EXCEPT ![j] = "pending"]
            /\ IF config.compute_orbitals
               THEN /\ orbitals' = Append(orbitals, PromiseEntry("store_MOs", j))
                    /\ st_MOs' = [st_MOs EXCEPT ![j].status = "scheduled"]
               ELSE /\ orbitals' = Append(orbitals, NoneEntry)
                    /\ UNCHANGED st_MOs
            /\ energies' = Append(energies, PromiseEntry("store_enery", j))
            /\ st_energy' = [st_energy EXCEPT ![j].status = "scheduled"]
            /\ guess_job' = next_guess(j)
    /\ j_loop' = j_loop + 1
    /\ UNCHANGED <<config, calc_new_wf_guess_on_points, hdf5, hdf5_start, writes, molog, result>>
    /\ UNCHANGED nacvars

\* ------------------------------------------------------------------ solver jobs
\* a solver job is dispatched once the promise it restarts from is resolved
StartJob(id) ==
    /\ Running
    /\ jobs[id].status = "scheduled"
    /\ Resolved(jobs[id].wfn)
    /\ jobs' = [jobs EXCEPT ![id].status = "running"]
    /\ UNCHANGED <<config, calc_new_wf_guess_on_points, hdf5, hdf5_start, writes, j_loop,
                   guess_job, orbitals, energies, check, st_MOs, st_energy, molog, result>>
    /\ UNCHANGED nacvars

\* the solver returns with warnings w and leaves its MOLog file in point_dir.
\* Only the warnings of a main job are kept: nothing reads those of a
\* guess-only job.
FinishJob(id, w) ==
    /\ Running
    /\ jobs[id].status = "running"
    /\ id[2] = "guess" => w = "none"
    /\ jobs' = [jobs EXCEPT ![id].status = "done", ![id].warnings = w]
    /\ molog' = [molog EXCEPT ![point_dir(id[1])] = TRUE]
    /\ UNCHANGED <<config, calc_new_wf_guess_on_points, hdf5, hdf5_start, writes, j_loop,
                   guess_job, orbitals, energies, check, st_MOs, st_energy, result>>
    /\ UNCHANGED nacvars

\* ------------------------------------------------------------------ schedule_check
schedule_check(j) ==
    /\ Running
    /\ check[j] = "pending"
    /\ JobDone(<<j, "main", 0>>)
    /\ IF scf_rejected(jobs[<<j, "main", 0>>].warnings)
       THEN IF molog[point_dir(j)]
            THEN /\ molog' = [molog EXCEPT ![point_dir(j)] = FALSE]
                 /\ calc_new_wf_guess_on_points' = Append(calc_new_wf_guess_on_points, K(j))
                 /\ jobs' = compute_orbitals(jobs, calc_new_wf_guess_on_points', j, None, 1)
                 /\ check' = [check EXCEPT ![j] = "rejected"]
            ELSE \* fnmatch.filter(...)[0] raises IndexError
                 /\ check' = [check EXCEPT ![j] = "failed"]
                 /\ UNCHANGED <<molog, calc_new_wf_guess_on_points, jobs>>
       ELSE /\ check' = [check EXCEPT ![j] = "accepted"]
            /\ UNCHANGED <<molog, calc_new_wf_guess_on_points, jobs>>
    /\ UNCHANGED <<config, hdf5, hdf5_start, writes, j_loop, guess_job, orbitals, energies,
                   st_MOs, st_energy, result>>
    /\ UNCHANGED nacvars

\* ------------------------------------------------------------------ persistence
\* store_arrays_in_hdf5(path_hdf5, path, array) for each path of ps, in order
store_arrays_in_hdf5(ps) ==
    /\ hdf5' = hdf5 \cup Range(ps)
    /\ writes' = [p \in DOMAIN writes |->
                      writes[p] + Cardinality({i \in DOMAIN ps : ps[i] = p})]

\* variant: the store nodes wait for the validated results of all frames
StoreReady_after_all(j) == \A i \in FrameIdx : check[i] # "none" => CheckResolved(i)

\* store_MOs and store_enery of frame j take the promise schedule_check
\* returned for frame j, and nothing else that is computed
StoreReady(j) == CheckResolved(j)

store_MOs(j) ==
    /\ Running
    /\ st_MOs[j].status = "scheduled"
    /\ StoreReady(j)
    /\ store_arrays_in_hdf5(dump_orbitals_to_hdf5(j))
    /\ IF molog[point_dir(j)]
       THEN /\ molog' = [molog EXCEPT ![point_dir(j)] = FALSE]
            /\ st_MOs' = [st_MOs EXCEPT ![j] = [status |-> "done", kind |-> CheckedJob(j)[2], round |-> CheckedJob(j)[3]]]
       ELSE \* fnmatch.filter(...)[0] raises IndexError in the finally block
            /\ st_MOs' = [st_MOs EXCEPT ![j] = [status |-> "failed", kind |-> CheckedJob(j)[2], round |-> CheckedJob(j)[3]]]
            /\ UNCHANGED molog
    /\ UNCHANGED <<config, calc_new_wf_guess_on_points, hdf5_start, j_loop, guess_job,
                   orbitals, energies, jobs, check, st_energy, result>>
    /\ UNCHANGED nacvars

store_enery(j) ==
    /\ Running
    /\ st_energy[j].status = "scheduled"
    /\ StoreReady(j)
    /\ store_arrays_in_hdf5(<< node_energy(j) >>)
    /\ st_energy' = [st_energy EXCEPT ![j] = [status |-> "done", kind |-> CheckedJob(j)[2], round |-> CheckedJob(j)[3]]]
    /\ UNCHANGED <<config, calc_new_wf_guess_on_points, hdf5_start, j_loop, guess_job,
                   orbitals, energies, jobs, check, st_MOs, molog, result>>
    /\ UNCHANGED nacvars

\* ------------------------------------------------------------------ gather
\* value of one entry of a gathered list
EntryValue(e) ==
    CASE e.tag = "paths"       -> e
      [] e.tag = "None"        -> e
      [] e.tag = "store_MOs"   -> PathsEntry(node_MOs(e.frame))
      [] e.tag = "store_enery" -> PathsEntry(<< node_energy(e.frame) >>)

EntryResolved(e) ==
    CASE e.tag = "store_MOs"   -> st_MOs[e.frame].status = "done"
      [] e.tag = "store_enery" -> st_energy[e.frame].status = "done"
      [] OTHER                 -> TRUE

\* gather(gather(*orbitals), gather(*energies)) resolves when every entry has
gather ==
    /\ Running
    /\ \A i \in DOMAIN orbitals : EntryResolved(orbitals[i])
    /\ \A i \in DOMAIN energies : EntryResolved(energies[i])
    /\ result' = [tag |-> "done",
                  orbitals |-> [i \in DOMAIN orbitals |-> EntryValue(orbitals[i])],
                  energies |-> [i \in DOMAIN energies |-> EntryValue(energies[i])]]
    /\ UNCHANGED <<config, calc_new_wf_guess_on_points, hdf5, hdf5_start, writes, j_loop,
                   guess_job, orbitals, energies, jobs, check, st_MOs, st_energy, molog>>
    /\ UNCHANGED nacvars

\* ------------------------------------------------------------------ specification
Next ==
    \/ ScheduleFrame
    \/ \E id \in JobIds : StartJob(id)
    \/ \E id \in JobIds, w \in Warnings : FinishJob(id, w)
    \/ \E j \in FrameIdx : schedule_check(j)
    \/ \E j \in FrameIdx : store_MOs(j)
    \/ \E j \in FrameIdx : store_enery(j)
    \/ gather

Init == QmInit /\ NacIdle

Spec == Init /\ [][Next]_vars

\* calculate_mos on an HDF5 file that holds all keys of some of the frames and
\* none of the others, run under a fair executor: a node that can make a step
\* is eventually run and every solver invocation eventually returns.
FairStart ==
    /\ config \in Configs
    /\ \E S \in SUBSET Points(config) : calc_new_wf_guess_on_points = SortedSeq(S)
    /\ \E F \in SUBSET Points(config) :
          hdf5 = {p \in AllPaths(config) : p.point \in F}
    /\ hdf5_start = hdf5
    /\ writes = [p \in AllPaths(config) \cup CP2KPaths(config) |-> 0]
    /\ j_loop = 0
    /\ guess_job = None
    /\ orbitals = << >>
    /\ energies = << >>
    /\ jobs = [id \in JobIds |-> NoJob]
    /\ check = [j \in FrameIdx |-> "none"]
    /\ st_MOs = [j \in FrameIdx |-> NoStore]
    /\ st_energy = [j \in FrameIdx |-> NoStore]
    /\ molog = [d \in PointDirs |-> FALSE]
    /\ result = NoResult

InitFair == FairStart /\ NacIdle

FairSpec == InitFair /\ [][Next]_vars /\ WF_vars(Next)

\* ================================================================== nac calculate_mos
\* The older pipeline of nac/schedule/components.py: the loop of calculate_mos
\* that builds the jobs (the jobs themselves store their orbitals).
NacK(j) == j + nac_args.enumerate_from

\* create_properties_path(i); package_name is "cp2k", the only package
\* call_schedule_qm can dispatch
create_properties_path(i) == << Path(i, "cp2k", "eigenvalues"),
                                Path(i, "cp2k", "coefficients") >>

\* call_schedule_qm(..., package_args, ..., guess_job=g, store_in_hdf5=store)
call_schedule_qm(package_args, g, store) ==
    [status |-> "scheduled", settings |-> package_args, wfn |-> g, store_in_hdf5 |-> store]

NacArgs == [n : 1 .. (MaxFrames + 1), enumerate_from : EnumerateFroms,
            calc_new_wf_guess_on_points : SUBSET (0 .. (MaxFrames + MaxEnumerateFrom))]

\* the nanoqm pipeline is not run under SpecNac
QmIdle ==
    /\ config = [n |-> 0, enumerate_from |-> 0, compute_orbitals |-> FALSE,
                 ignore_warnings |-> FALSE, package_name |-> "cp2k"]
    /\ calc_new_wf_guess_on_points = << >>
    /\ hdf5 = {}
    /\ hdf5_start = {}
    /\ writes = << >>
    /\ j_loop = 0
    /\ guess_job = None
    /\ orbitals = << >>
    /\ energies = << >>
    /\ jobs = [id \in JobIds |-> NoJob]
    /\ check = [j \in FrameIdx |-> "none"]
    /\ st_MOs = [j \in FrameIdx |-> NoStore]
    /\ st_energy = [j \in FrameIdx |-> NoStore]
    /\ molog = [d \in PointDirs |-> FALSE]
    /\ result = NoResult

NacStart ==
    /\ nac_args \in NacArgs
    /\ nac_args.calc_new_wf_guess_on_points \subseteq Points(nac_args)
    /\ nac_f5 \in SUBSET {Path(k, "cp2k", l) : k \in Points(nac_args),
                                              l \in {"eigenvalues", "coefficients"}}
    /\ nac_j = 0
    /\ nac_guess_job = None
    /\ nac_path_to_orbitals = << >>
    /\ nac_jobs = [id \in FrameIdx \X {"guess", "main"} |-> NoNacJob]
    /\ nac_result = NoResult

\* variant: guess_job keeps the promise of the first job of the batch
nac_next_guess_first(g, j) == IF g = None THEN MainPromise(j) ELSE g

\* guess_job = promise_qm (line 117), whatever guess_job was
nac_next_guess(g, j) == MainPromise(j)

\* one iteration of the loop of calculate_mos over all_geometries
nac_calculate_mos ==
    /\ nac_j < nac_args.n
    /\ LET j == nac_j
           k == NacK(j)
           paths_to_prop == create_properties_path(k)
       IN  IF search_data_in_hdf5(nac_f5, paths_to_prop)
           THEN /\ nac_path_to_orbitals' = Append(nac_path_to_orbitals, PathsEntry(paths_to_prop))
                /\ UNCHANGED <<nac_guess_job, nac_jobs>>
           ELSE LET new_guess == k \in nac_args.calc_new_wf_guess_on_points
                    g == IF new_guess THEN GuessPromise(j, 0) ELSE nac_guess_job
                    js == IF new_guess
                          THEN [nac_jobs EXCEPT ![<<j, "guess">>] =
                                   call_schedule_qm("guess_args", nac_guess_job, FALSE)]
                          ELSE nac_jobs
                IN  /\ nac_jobs' = [js EXCEPT ![<<j, "main">>] =
                                       call_schedule_qm("package_args", g, TRUE)]
                    /\ nac_path_to_orbitals' =
                           Append(nac_path_to_orbitals, PromiseEntry("orbitals", j))
                    /\ nac_guess_job' = nac_next_guess(nac_guess_job, j)
    /\ nac_j' = nac_j + 1
    /\ UNCHANGED <<nac_args, nac_f5, nac_result>>
    /\ UNCHANGED qmvars

\* return gather(*path_to_orbitals)
nac_return ==
    /\ nac_j = nac_args.n
    /\ nac_result.tag = "pending"
    /\ nac_result' = [tag |-> "returned", orbitals |-> nac_path_to_orbitals, energies |-> << >>]
    /\ UNCHANGED <<nac_args, nac_f5, nac_j, nac_guess_job, nac_path_to_orbitals, nac_jobs>>
    /\ UNCHANGED qmvars

NextNac == nac_calculate_mos \/ nac_return

InitNac == QmIdle /\ NacStart

SpecNac == InitNac /\ [][NextNac]_vars

\* ================================================================== three-frame scenario
\* calculate_mos on three geometries with an empty restart list, an empty HDF5
\* file and orbitals requested, run with a solver that never warns.
ScenarioFrames == 3

ScenarioConfigs == [n : {ScenarioFrames}, enumerate_from : EnumerateFroms,
                    compute_orbitals : {TRUE}, ignore_warnings : BOOLEAN,
                    package_name : PackageNames]

ScenarioStart ==
    /\ config \in ScenarioConfigs
    /\ calc_new_wf_guess_on_points = << >>
    /\ hdf5 = {}
    /\ hdf5_start = hdf5
    /\ writes = [p \in AllPaths(config) \cup CP2KPaths(config) |-> 0]
    /\ j_loop = 0
    /\ guess_job = None
    /\ orbitals = << >>
    /\ energies = << >>
    /\ jobs = [id \in JobIds |-> NoJob]
    /\ check = [j \in FrameIdx |-> "none"]
    /\ st_MOs = [j \in FrameIdx |-> NoStore]
    /\ st_energy = [j \in FrameIdx |-> NoStore]
    /\ molog = [d \in PointDirs |-> FALSE]
    /\ result = NoResult

NextScenario ==
    \/ ScheduleFrame
    \/ \E id \in JobIds : StartJob(id)
    \/ \E id \in JobIds : FinishJob(id, "none")
    \/ \E j \in FrameIdx : schedule_check(j)
    \/ \E j \in FrameIdx : store_MOs(j)
    \/ \E j \in FrameIdx : store_enery(j)
    \/ gather

InitScenario == ScenarioStart /\ NacIdle

SpecScenario == InitScenario /\ [][NextScenario]_vars

\* ================================================================== restart points off the trajectory
\* calculate_mos called with a restart list that names a point outside
\* enumerate_from .. enumerate_from + len(geometries) - 1, on an empty or a
\* complete HDF5 file.
RangeStart ==
    /\ config \in Configs
    /\ \E S \in SUBSET (0 .. (MaxEnumerateFrom + MaxFrames)) :
          /\ ~(S \subseteq Points(config))
          /\ calc_new_wf_guess_on_points = SortedSeq(S)
    /\ hdf5 \in {{}, AllPaths(config)}
    /\ hdf5_start = hdf5
    /\ writes = [p \in AllPaths(config) \cup CP2KPaths(config) |-> 0]
    /\ j_loop = 0
    /\ guess_job = None
    /\ orbitals = << >>
    /\ energies = << >>
    /\ jobs = [id \in JobIds |-> NoJob]
    /\ check = [j \in FrameIdx |-> "none"]
    /\ st_MOs = [j \in FrameIdx |-> NoStore]
    /\ st_energy = [j \in FrameIdx |-> NoStore]
    /\ molog = [d \in PointDirs |-> FALSE]
    /\ result = NoResult

InitRange == RangeStart /\ NacIdle

SpecRange == InitRange /\ [][Next]_vars

\* ================================================================== resumed three-frame run
\* calculate_mos on three geometries with an HDF5 file that holds all keys of
\* some of the frames and none of the others, any restart list on the
\* trajectory, run with a solver that never warns.
ResumeConfigs == [n : {ScenarioFrames}, enumerate_from : EnumerateFroms,
                  compute_orbitals : BOOLEAN, ignore_warnings : BOOLEAN,
                  package_name : PackageNames]

ResumeStart ==
    /\ config \in ResumeConfigs
    /\ \E S \in SUBSET Points(config) : calc_new_wf_guess_on_points = SortedSeq(S)
    /\ \E F \in SUBSET Points(config) :
          hdf5 = {p \in AllPaths(config) : p.point \in F}
    /\ hdf5_start = hdf5
    /\ writes = [p \in AllPaths(config) \cup CP2KPaths(config) |-> 0]
    /\ j_loop = 0
    /\ guess_job = None
    /\ orbitals = << >>
    /\ energies = << >>
    /\ jobs = [id \in JobIds |-> NoJob]
    /\ check = [j \in FrameIdx |-> "none"]
    /\ st_MOs = [j \in FrameIdx |-> NoStore]
    /\ st_energy = [j \in FrameIdx |-> NoStore]
    /\ molog = [d \in PointDirs |-> FALSE]
    /\ result = NoResult

InitResume == ResumeStart /\ NacIdle

SpecResume == InitResume /\ [][NextScenario]_vars

\* ================================================================== solver runs without MOLog
\* calculate_mos on an empty HDF5 file, run with a solver that may return
\* without leaving a mo_*MOLog file in the directory of the frame.
FinishJobNoMOLog(id, w) ==
    /\ Running
    /\ jobs[id].status = "running"
    /\ id[2] = "guess" => w = "none"
    /\ jobs' = [jobs EXCEPT ![id].status = "done", ![id].warnings = w]
    /\ UNCHANGED <<config, calc_new_wf_guess_on_points, hdf5, hdf5_start, writes, j_loop,
                   guess_job, orbitals, energies, check, st_MOs, st_energy, molog, result>>
    /\ UNCHANGED nacvars

EmptyStoreStart ==
    /\ config \in Configs
    /\ \E S \in SUBSET Points(config) : calc_new_wf_guess_on_points = SortedSeq(S)
    /\ hdf5 = {}
    /\ hdf5_start = hdf5
    /\ writes = [p \in AllPaths(config) \cup CP2KPaths(config) |-> 0]
    /\ j_loop = 0
    /\ guess_job = None
    /\ orbitals = << >>
    /\ energies = << >>
    /\ jobs = [id \in JobIds |-> NoJob]
    /\ check = [j \in FrameIdx |-> "none"]
    /\ st_MOs = [j \in FrameIdx |-> NoStore]
    /\ st_energy = [j \in FrameIdx |-> NoStore]
    /\ molog = [d \in PointDirs |-> FALSE]
    /\ result = NoResult

NextNoLog ==
    \/ Next
    \/ \E id \in JobIds, w \in Warnings : FinishJobNoMOLog(id, w)

InitEmptyStore == EmptyStoreStart /\ NacIdle

SpecNoLog == InitEmptyStore /\ [][NextNoLog]_vars

\* ================================================================== solver failures
\* calculate_mos on an empty HDF5 file, run with a solver whose invocations
\* may raise instead of returning a result.
FrameFailed(j) == \E id \in JobIds : id[1] = j /\ jobs[id].status = "failed"

\* the invocation of job id raises: its promise is never resolved
FailJob(id) ==
    /\ Running
    /\ jobs[id].status = "running"
    /\ jobs' = [jobs EXCEPT ![id].status = "failed"]
    /\ UNCHANGED <<config, calc_new_wf_guess_on_points, hdf5, hdf5_start, writes, j_loop,
                   guess_job, orbitals, energies, check, st_MOs, st_energy, molog, result>>
    /\ UNCHANGED nacvars

\* a node of the graph other than the final gather can make a step
NodeStep ==
    \/ \E id \in JobIds : StartJob(id)
    \/ \E id \in JobIds, w \in Warnings : FinishJob(id, w)
    \/ \E id \in JobIds : FailJob(id)
    \/ \E j \in FrameIdx : schedule_check(j)
    \/ \E j \in FrameIdx : store_MOs(j)
    \/ \E j \in FrameIdx : store_enery(j)

\* the failure reaches the caller of the joined result once no other node can
\* run: nodes that do not depend on the failed one are not cancelled
gather_error ==
    /\ Running
    /\ \E j \in FrameIdx : FrameFailed(j)
    /\ ~ENABLED NodeStep
    /\ result' = [tag |-> "error", orbitals |-> << >>, energies |-> << >>]
    /\ UNCHANGED <<config, calc_new_wf_guess_on_points, hdf5, hdf5_start, writes, j_loop,
                   guess_job, orbitals, energies, jobs, check, st_MOs, st_energy, molog>>
    /\ UNCHANGED nacvars

NextFail ==
    \/ Next
    \/ \E id \in JobIds : FailJob(id)
    \/ gather_error

SpecFail == InitEmptyStore /\ [][NextFail]_vars

\* ================================================================== other package names
\* calculate_mos on an empty HDF5 file with config.package_name any of the
\* package names of the repository.
AllPackageNames == {"cp2k", "turbomole"}

PackageConfigs == [n : 1 .. MaxFrames, enumerate_from : EnumerateFroms,
                   compute_orbitals : BOOLEAN, ignore_warnings : BOOLEAN,
                   package_name : AllPackageNames]

PackageStart ==
    /\ config \in PackageConfigs
    /\ \E S \in SUBSET Points(config) : calc_new_wf_guess_on_points = SortedSeq(S)
    /\ hdf5 = {}
    /\ hdf5_start = hdf5
    /\ writes = [p \in AllPaths(config) \cup CP2KPaths(config) |-> 0]
    /\ j_loop = 0
    /\ guess_job = None
    /\ orbitals = << >>
    /\ energies = << >>
    /\ jobs = [id \in JobIds |-> NoJob]
    /\ check = [j \in FrameIdx |-> "none"]
    /\ st_MOs = [j \in FrameIdx |-> NoStore]
    /\ st_energy = [j \in FrameIdx |-> NoStore]
    /\ molog = [d \in PointDirs |-> FALSE]
    /\ result = NoResult

InitPackage == PackageStart /\ NacIdle

SpecPackage == InitPackage /\ [][Next]_vars

\* ================================================================== properties
Scheduled(j) == j \in 0 .. (j_loop - 1)
\* frame j was found in the HDF5 file and skipped / was scheduled for computation
Skipped(j) == Scheduled(j) /\ check[j] = "none"
Fresh(j) == Scheduled(j) /\ check[j] # "none"

JobsOf(j) == {id \in JobIds : id[1] = j}
Started(id) == jobs[id].status \in {"running", "done"}
Rejections == Cardinality({j \in FrameIdx : check[j] = "rejected"})
\* the restart points of the configuration, without those schedule_check appended
InitialPoints ==
    Range(SubSeq(calc_new_wf_guess_on_points, 1,
                 Len(calc_new_wf_guess_on_points) - Rejections))

\* paths a scheduled frame has put into the lists orbitals and energies
Contribution(j) ==
    Range(EntryValue(orbitals[j + 1]).paths)
      \cup UNION {Range(EntryValue(energies[i]).paths) :
                    i \in {x \in DOMAIN energies : energies[x].tag = "store_enery"
                                                    /\ energies[x].frame = j}}

\* ------------------------------------------------------------------ C1
\* C1 (idempotent skip): a frame whose checked keys are in the store when
\* calculate_mos runs gets no solver job, nothing is written for it, and it
\* contributes exactly the keys whose presence was checked.
C1_IdempotentSkip ==
    \A j \in FrameIdx :
        (Scheduled(j) /\ Range(predicate(j)) \subseteq hdf5_start) =>
            /\ \A id \in JobsOf(j) : jobs[id].status = "absent"
            /\ st_MOs[j].status = "none" /\ st_energy[j].status = "none"
            /\ \A p \in DOMAIN writes : p.point = K(j) => writes[p] = 0
            /\ Contribution(j) = Range(predicate(j))

\* ------------------------------------------------------------------ C2
MainJobsStarted(j) == {r \in {0, 1} : Started(<<j, "main", r>>)}
\* every finished main job of frame j reported the SCF convergence warning
AlwaysWarns(j) ==
    /\ JobDone(<<j, "main", 0>>)
    /\ \A r \in {0, 1} : JobDone(<<j, "main", r>>) => jobs[<<j, "main", r>>].warnings = "scf"

\* C2 (single-retry bound): with validation on and a solver that always
\* reports the SCF warning, once schedule_check has run for a frame a second
\* main job exists for it, and when the frame's promise is resolved exactly
\* two main jobs have been run for it.
C2_SingleRetryBound ==
    \A j \in FrameIdx :
        (~config.ignore_warnings /\ AlwaysWarns(j)) =>
            /\ check[j] # "pending" => /\ check[j] = "rejected"
                                       /\ jobs[<<j, "main", 1>>].status # "absent"
            /\ CheckResolved(j) => Cardinality(MainJobsStarted(j)) = 2
            /\ Cardinality({id \in JobsOf(j) : id[2] = "main" /\ jobs[id].status # "absent"}) <= 2

C2_Witness ==
    \E j \in FrameIdx :
        /\ ~config.ignore_warnings /\ AlwaysWarns(j)
        /\ JobDone(<<j, "main", 1>>)
        /\ result.tag = "done"

\* ------------------------------------------------------------------ C3
\* C3 (terminal failure after retry): if the corrective job of a frame also
\* ends with the SCF warning, its result is not persisted, no later job
\* restarts from it and the joined result is not delivered.
C3_TerminalFailureAfterRetry ==
    \A j \in FrameIdx :
        (/\ ~config.ignore_warnings
         /\ check[j] = "rejected"
         /\ JobDone(<<j, "main", 1>>)
         /\ jobs[<<j, "main", 1>>].warnings = "scf") =>
            /\ st_energy[j].status # "done"
            /\ st_MOs[j].status # "done"
            /\ \A id \in JobIds : jobs[id].wfn = CheckPromise(j) => ~Started(id)
            /\ result.tag # "done"

\* ------------------------------------------------------------------ C4
NoRestartPoints == InitialPoints = {}
NoCacheHits == \A j \in FrameIdx : ~Skipped(j)

C5_RestartOverride ==
    \A j \in FrameIdx :
        (Fresh(j) /\ K(j) \in InitialPoints) =>
            \A id \in JobsOf(j) : jobs[id].wfn.tag # "check"

\* ------------------------------------------------------------------ C6
\* C6 (order preservation): entry i of each list of the joined result holds
\* the keys of frame i (point i + enumerate_from).
C6_OrderPreservation ==
    result.tag = "done" =>
        /\ \A i \in DOMAIN result.orbitals :
              \A p \in Range(result.orbitals[i].paths) : p.point = K(i - 1)
        /\ \A i \in DOMAIN result.energies :
              \A p \in Range(result.energies[i].paths) : p.point = K(i - 1)

\* ------------------------------------------------------------------ C7
\* C7 (parallel output sequences): both lists of the joined result have one
\* entry per frame, and position i of both holds keys of frame i.
C7_ParallelSequences ==
    result.tag = "done" =>
        /\ Len(result.orbitals) = config.n
        /\ Len(result.energies) = config.n
        /\ \A i \in 1 .. config.n :
              /\ \E p \in Range(result.orbitals[i].paths) : p.point = K(i - 1)
              /\ \E p \in Range(result.energies[i].paths) : p.point = K(i - 1)

\* ------------------------------------------------------------------ C8
\* C8 (composite-key atomicity): a frame is skipped only if both MO keys are
\* in the store; with one of the two present the check reports absent and
\* the job of the frame is built.
C8_CompositeKeyAtomicity ==
    \A j \in FrameIdx :
        j < nac_j =>
            LET present == Range(create_properties_path(NacK(j))) \cap nac_f5 IN
            /\ nac_path_to_orbitals[j + 1].tag = "paths" <=> Cardinality(present) = 2
            /\ Cardinality(present) < 2 => nac_jobs[<<j, "main">>].status = "scheduled"
            /\ Cardinality(present) = 2 => nac_jobs[<<j, "main">>].status = "absent"

C8_Witness ==
    \E j \in FrameIdx :
        /\ j < nac_j
        /\ Cardinality(Range(create_properties_path(NacK(j))) \cap nac_f5) = 1
        /\ nac_jobs[<<j, "main">>].status = "scheduled"
        /\ nac_result.tag = "returned"

\* ------------------------------------------------------------------ C9
\* C9 as claimed (create-once persistence): every key is written at most once
\* in a run and a key present at the start is not written at all.
C9_CreateOnce ==
    \A p \in DOMAIN writes :
        /\ writes[p] <= 1
        /\ p \in hdf5_start => writes[p] = 0

\* C9 as amended: every key is written at most once in a run (so no two frames
\* write the same key), no key of a skipped frame is written, and a key
\* present at the start is written again only for a frame that is computed
\* because the keys checked for it were not all present.
C9_CreateOnceAmended ==
    \A p \in DOMAIN writes :
        /\ writes[p] <= 1
        /\ writes[p] > 0 =>
              \E j \in FrameIdx :
                  /\ K(j) = p.point /\ Fresh(j)
                  /\ ~(Range(predicate(j)) \subseteq hdf5_start)

C9_Witness ==
    /\ result.tag = "done"
    /\ \E p \in DOMAIN writes : p \in hdf5_start /\ writes[p] = 1
    /\ \E j \in FrameIdx : check[j] = "rejected"

\* ------------------------------------------------------------------ C10
Written(j, leaf) ==
    \E p \in DOMAIN writes : p.point = K(j) /\ p.leaf = leaf /\ writes[p] >= 1
\* round r of frame j is the result schedule_check let through
Accepted(j, r) ==
    /\ JobDone(<<j, "main", r>>)
    /\ CheckResolved(j)
    /\ r = 0 => ~scf_rejected(jobs[<<j, "main", 0>>].warnings)

\* C10 (persistence on accept): what is stored for a frame comes from its
\* accepted result; the energy is written under the frame's energy key, the
\* eigenvalues and coefficients are written iff orbitals are requested, and
\* when the joined result is delivered this has happened for every computed frame.
C10_PersistenceOnAccept ==
    \A j \in FrameIdx :
        /\ st_energy[j].status = "done" =>
              /\ Accepted(j, st_energy[j].round)
              /\ writes[node_energy(j)] >= 1 /\ node_energy(j) \in hdf5
        /\ st_MOs[j].status = "done" =>
              /\ Accepted(j, st_MOs[j].round)
              /\ Written(j, "eigenvalues") /\ Written(j, "coefficients")
        /\ (\E l \in Leaves : Written(j, l)) => CheckResolved(j)
        /\ (Written(j, "eigenvalues") \/ Written(j, "coefficients")) => config.compute_orbitals
        /\ (result.tag = "done" /\ Fresh(j)) =>
              /\ Written(j, "energy")
              /\ config.compute_orbitals => (Written(j, "eigenvalues") /\ Written(j, "coefficients"))

C10_Witness ==
    \E j \in FrameIdx :
        /\ result.tag = "done"
        /\ check[j] = "rejected"
        /\ st_MOs[j].status = "done" /\ st_energy[j].status = "done"

\* ------------------------------------------------------------------ C11
\* C11 (three-frame scenario): with three frames, no restart points, an empty
\* store, orbitals requested and a solver that never warns, no guess-only job
\* is built, the three main jobs run in frame order, and when the joined
\* result is delivered exactly three main jobs have run, the store holds the
\* three energy keys and the three MO key pairs, and both returned lists have
\* three entries in frame order.
C11_ThreeFrameScenario ==
    /\ \A j \in FrameIdx, r \in {0, 1} : jobs[<<j, "guess", r>>].status = "absent"
    /\ \A j \in FrameIdx : jobs[<<j, "main", 1>>].status = "absent"
    /\ \A j \in FrameIdx \ {0} : Started(<<j, "main", 0>>) => JobDone(<<j - 1, "main", 0>>)
    /\ result.tag = "done" =>
          /\ {id \in JobIds : JobDone(id)} = {<<j, "main", 0>> : j \in 0 .. (ScenarioFrames - 1)}
          /\ hdf5 = AllPaths(config)
          /\ Len(result.orbitals) = ScenarioFrames /\ Len(result.energies) = ScenarioFrames
          /\ \A i \in 1 .. ScenarioFrames :
                /\ result.orbitals[i].paths = node_MOs(i - 1)
                /\ result.energies[i].paths = << node_energy(i - 1) >>

\* ------------------------------------------------------------------ C12
\* C12 (restart-point range check): when the configured restart list names a
\* point outside enumerate_from .. enumerate_from + N - 1, calculate_mos fails
\* before any solver job is built: no job exists, no frame is retried and no
\* joined result is delivered.
C12_RestartPointRangeCheck ==
    (\E k \in InitialPoints : k \notin Points(config)) =>
        /\ \A id \in JobIds : jobs[id].status = "absent"
        /\ \A j \in FrameIdx : check[j] = "none"
        /\ result.tag # "done"

\* ------------------------------------------------------------------ C13
\* frame j of the nac loop got a job / is the first frame of a batch: a
\* computed frame that is a restart point or has no computed frame before it
NacFresh(j) == j < nac_j /\ nac_jobs[<<j, "main">>].status # "absent"
NacBatchStart(j) ==
    /\ NacFresh(j)
    /\ \/ NacK(j) \in nac_args.calc_new_wf_guess_on_points
       \/ \A i \in 0 .. (j - 1) : ~NacFresh(i)
Last(S) == CHOOSE x \in S : \A y \in S : y <= x
\* the first frame of the batch of j, and the computed frame just before j
NacBatchFirst(j) == Last({b \in 0 .. j : NacBatchStart(b)})
NacPrevFresh(j) == Last({i \in 0 .. (j - 1) : NacFresh(i)})

C14_SkipKeySet ==
    \A j \in FrameIdx :
        Scheduled(j) =>
            (Skipped(j) <=>
                /\ node_energy(j) \in hdf5_start
                /\ config.compute_orbitals => Range(node_MOs(j)) \subseteq hdf5_start)

\* ------------------------------------------------------------------ C15
\* C15 (validation outcome): once schedule_check has run for a frame, the
\* result is rejected iff warnings are not ignored and the job reported the
\* SCF convergence warning; otherwise it is accepted, no corrective job
\* exists for the frame and what is stored comes from the original job.
C15_ValidationOutcome ==
    \A j \in FrameIdx :
        check[j] \notin {"none", "pending"} =>
            IF ~config.ignore_warnings /\ jobs[<<j, "main", 0>>].warnings = "scf"
            THEN check[j] = "rejected"
            ELSE /\ check[j] = "accepted"
                 /\ jobs[<<j, "guess", 1>>].status = "absent"
                 /\ jobs[<<j, "main", 1>>].status = "absent"
                 /\ K(j) \notin Range(calc_new_wf_guess_on_points) \ InitialPoints
                 /\ st_MOs[j].round = 0 /\ st_energy[j].round = 0

C15_Witness ==
    \E i, j \in FrameIdx :
        /\ ~config.ignore_warnings
        /\ check[i] = "rejected"
        /\ check[j] = "accepted" /\ jobs[<<j, "main", 0>>].warnings = "other"
        /\ st_energy[j].status = "done"

\* ------------------------------------------------------------------ C16
\* the guess handle calculate_mos holds when it reaches frame j: the promise of
\* the last computed frame before j, None if there is none
HandleBefore(j) ==
    LET before == {i \in 0 .. (j - 1) : Fresh(i)}
    IN  IF before = {} THEN None ELSE CheckPromise(Last(before))

C17_CorrectiveRetry ==
    [][\A j \in FrameIdx :
          (check[j] = "pending" /\ check'[j] = "rejected") =>
              /\ calc_new_wf_guess_on_points' = Append(calc_new_wf_guess_on_points, K(j))
              /\ jobs[<<j, "guess", 1>>].status = "absent"
              /\ jobs[<<j, "main", 1>>].status = "absent"
              /\ jobs'[<<j, "guess", 1>>] =
                     [status |-> "scheduled", settings |-> "cp2k_settings_guess",
                      wfn |-> None, warnings |-> "none"]
              /\ jobs'[<<j, "main", 1>>] =
                     [status |-> "scheduled", settings |-> "cp2k_settings_main",
                      wfn |-> GuessPromise(j, 1), warnings |-> "none"]
              /\ \A id \in JobIds \ {<<j, "guess", 1>>, <<j, "main", 1>>} :
                     jobs'[id] = jobs[id]]_vars

C17_Witness ==
    \E i, j \in FrameIdx :
        /\ i # j
        /\ check[j] = "rejected" /\ jobs[<<j, "main", 1>>].status = "scheduled"
        /\ K(j) \in InitialPoints
        /\ jobs[<<i, "main", 0>>].status # "absent"

\* ------------------------------------------------------------------ C18
\* the guess compute_orbitals received for a computed frame
HandlePassed(j) ==
    IF jobs[<<j, "guess", 0>>].status # "absent"
    THEN jobs[<<j, "guess", 0>>].wfn
    ELSE jobs[<<j, "main", 0>>].wfn

\* C18 (cached frames keep the guess chain): the guess handle calculate_mos
\* holds is always the promise of the last computed frame scheduled so far,
\* None if there is none, whatever number of cached frames came after it;
\* each computed frame was built with the handle of the last computed frame
\* before it.
C18_CachedFramesKeepGuess ==
    /\ guess_job = HandleBefore(j_loop)
    /\ \A j \in FrameIdx : Fresh(j) => HandlePassed(j) = HandleBefore(j)

C18_Witness ==
    \E j \in FrameIdx :
        /\ Fresh(j) /\ Skipped(j + 1) /\ Fresh(j + 2)
        /\ K(j + 2) \notin InitialPoints
        /\ jobs[<<j + 2, "main", 0>>].wfn = CheckPromise(j)
        /\ JobDone(<<j + 2, "main", 0>>)

\* ------------------------------------------------------------------ C19
\* C19 (guess-chain dependency ordering): a job that restarts from the
\* handle of frame k has not begun before schedule_check has run for frame k
\* and the job whose result the handle stands for is done; a main job that
\* restarts from a guess-only job has not begun before that job is done.
C19_GuessChainOrdering ==
    \A id \in JobIds :
        Started(id) =>
            LET h == jobs[id].wfn IN
            /\ h.tag = "check" =>
                  /\ JobDone(<<h.frame, "main", 0>>)
                  /\ check[h.frame] \in {"accepted", "rejected"}
                  /\ JobDone(CheckedJob(h.frame))
            /\ h.tag = "guess" => JobDone(<<h.frame, "guess", h.round>>)

C19_Witness ==
    \E id \in JobIds :
        /\ id[1] > 0
        /\ jobs[id].status = "running"
        /\ jobs[id].wfn = CheckPromise(id[1] - 1)
        /\ check[id[1] - 1] = "rejected"

\* ------------------------------------------------------------------ C20
\* job id belongs to another frame than j and restarts from the handle of frame j
RestartsFrom(id, j) ==
    /\ id[1] # j
    /\ jobs[id].status # "absent"
    /\ jobs[id].wfn.tag \in {"check", "main"}
    /\ jobs[id].wfn.frame = j

\* C20 as claimed (stale-guess race): nothing holds back a later frame while
\* the original result of frame j awaits validation; a waiting job that
\* restarts from the handle of frame j can be dispatched as soon as the
\* original main job of frame j is done, before schedule_check has run.
C20_StaleGuessRace ==
    \A j \in FrameIdx, id \in JobIds :
        (/\ Running
         /\ JobDone(<<j, "main", 0>>) /\ check[j] = "pending"
         /\ RestartsFrom(id, j) /\ jobs[id].status = "scheduled")
            => ENABLED StartJob(id)

\* C20 as amended: in the step in which schedule_check rejects the result of
\* frame j, no job of another frame that restarts from the handle of frame j
\* has started.
C20_NoStaleGuessRace ==
    [][\A j \in FrameIdx :
          (check[j] = "pending" /\ check'[j] = "rejected") =>
              \A id \in JobIds : RestartsFrom(id, j) => jobs[id].status = "scheduled"]_vars

C20_Witness ==
    \E j \in FrameIdx, id \in JobIds :
        /\ check[j] = "rejected"
        /\ RestartsFrom(id, j)
        /\ JobDone(id)

\* ------------------------------------------------------------------ C21
\* the contribution of computed frame j to the joined result is produced
ContributionProduced(j) ==
    /\ Fresh(j)
    /\ st_energy[j].status = "done"
    /\ config.compute_orbitals => st_MOs[j].status = "done"

\* C21 (unconditional scratch cleanup): once the contribution of an accepted
\* frame is produced, with or without orbitals requested, the MOLog file of
\* the frame is gone; after a rejection it is gone as long as no job of the
\* corrective chain has started.
C21_ScratchCleanup ==
    \A j \in FrameIdx :
        /\ ContributionProduced(j) => ~molog[point_dir(j)]
        /\ (check[j] = "rejected" /\ \A id \in JobsOf(j) : id[3] = 1 => ~Started(id))
               => ~molog[point_dir(j)]

\* ------------------------------------------------------------------ C22
\* C22 (cleanup failure is swallowed): a MOLog file missing at cleanup fails
\* neither schedule_check nor store_MOs: every rejected result gets its
\* corrective chain and every store node of a validated frame that has run
\* has returned its keys.
C22_CleanupFailureSwallowed ==
    \A j \in FrameIdx :
        /\ check[j] # "failed"
        /\ st_MOs[j].status # "failed"
        /\ (check[j] \notin {"none", "pending"}
              /\ ~config.ignore_warnings /\ jobs[<<j, "main", 0>>].warnings = "scf")
               => jobs[<<j, "main", 1>>].status # "absent"

\* ------------------------------------------------------------------ C23
\* C23 (solver failures are not retried): once an invocation for frame k has
\* raised, no job of frame k is running or gets built, the jobs built for it
\* that had not started stay unstarted, nothing is written under the keys of
\* frame k, its store nodes never return, and the joined result is not
\* delivered; what the caller gets is the error.
C23_SolverFailureNotRetried ==
    /\ \A k \in FrameIdx :
          FrameFailed(k) =>
              /\ Cardinality({id \in JobsOf(k) : jobs[id].status = "failed"}) = 1
              /\ \A id \in JobsOf(k) : jobs[id].status # "running"
              /\ jobs[<<k, "guess", 0>>].status = "failed" =>
                     jobs[<<k, "main", 0>>].status = "scheduled"
              /\ (\E kind \in {"guess", "main"} : jobs[<<k, kind, 0>>].status = "failed") =>
                     /\ check[k] = "pending"
                     /\ \A id \in JobsOf(k) : id[3] = 1 => jobs[id].status = "absent"
              /\ jobs[<<k, "guess", 1>>].status = "failed" =>
                     jobs[<<k, "main", 1>>].status = "scheduled"
              /\ \A p \in DOMAIN writes : p.point = K(k) => writes[p] = 0
              /\ st_MOs[k].status # "done" /\ st_energy[k].status # "done"
              /\ result.tag # "done"
    /\ result.tag = "error" => \E k \in FrameIdx : FrameFailed(k)

C23_Witness ==
    \E k \in FrameIdx :
        /\ result.tag = "error"
        /\ check[k] = "rejected"
        /\ jobs[<<k, "main", 1>>].status = "failed"

\* ------------------------------------------------------------------ C24
\* the result of frame j has passed schedule_check and is available
Validated(j) ==
    \/ check[j] = "accepted"
    \/ check[j] = "rejected" /\ JobDone(<<j, "main", 1>>)

FrameActs(j) ==
    \/ \E id \in JobsOf(j) : jobs'[id] # jobs[id]
    \/ check'[j] # check[j]
    \/ st_MOs'[j] # st_MOs[j]

\* C25 (exclusive working directories): the folders of a configuration are
\* pairwise distinct, frame j has folder point_k with k = j + enumerate_from,
\* and a step creates or deletes the MOLog file of a directory only if it is
\* a step of the frame that owns the directory.
C25_ExclusiveDirectories ==
    /\ [](/\ Len(folders) = config.n
          /\ \A i, j \in 0 .. (config.n - 1) : i # j => point_dir(i) # point_dir(j)
          /\ \A j \in 0 .. (config.n - 1) : point_dir(j) = K(j))
    /\ [][\A d \in PointDirs :
             molog'[d] # molog[d] =>
                 \E j \in 0 .. (config.n - 1) : d = K(j) /\ FrameActs(j)]_vars

C25_Witness ==
    \E i, j \in FrameIdx :
        /\ config.enumerate_from > 0
        /\ i # j /\ Fresh(i) /\ Fresh(j)
        /\ st_MOs[i].status = "done" /\ ~molog[point_dir(i)]
        /\ molog[point_dir(j)]

\* ------------------------------------------------------------------ C26
\* frame j has reached a final state: skipped, or validated and persisted
FrameFinal(j) ==
    \/ Skipped(j)
    \/ /\ Fresh(j) /\ Validated(j)
       /\ st_energy[j].status = "done"
       /\ config.compute_orbitals => st_MOs[j].status = "done"

\* C26 (pipeline termination): under a fair executor with a solver that
\* always returns, eventually every frame is final and the joined result is
\* delivered; no frame is rejected twice.
C26_Termination ==
    <>(/\ result.tag = "done"
       /\ \A j \in 0 .. (config.n - 1) : FrameFinal(j))

C26_Witness ==
    /\ result.tag = "done"
    /\ \A j \in 0 .. (config.n - 1) : FrameFinal(j)
    /\ \E j \in FrameIdx : check[j] = "rejected" /\ jobs[<<j, "main", 1>>].warnings = "scf"

\* ------------------------------------------------------------------ C27
\* C27 (returned keys are the written keys): once store_MOs has returned for
\* frame j, the keys it returns are the keys dump_orbitals_to_hdf5 wrote,
\* they are in the store, and the skip test of calculate_mos finds the frame.
C27_ReturnedKeysWritten ==
    \A j \in FrameIdx :
        st_MOs[j].status = "done" =>
            /\ node_MOs(j) = dump_orbitals_to_hdf5(j)
            /\ Range(node_MOs(j)) \subseteq hdf5
            /\ is_data_in_hdf5(hdf5, predicate(j))

\* ------------------------------------------------------------------ C28
\* C28 (the next frame's guess is the persisted result): a job of another
\* frame that has started from the handle of frame j uses the result of a
\* finished main job of frame j that has passed schedule_check, the
\* corrective one if the original was rejected, and that is the result the
\* store nodes of frame j persist.
C28_GuessIsPersistedResult ==
    \A j \in FrameIdx, id \in JobIds :
        (RestartsFrom(id, j) /\ Started(id)) =>
            LET src == PromisedJob(jobs[id].wfn) IN
            /\ src[1] = j /\ src[2] = "main" /\ JobDone(src)
            /\ check[j] \in {"accepted", "rejected"}
            /\ check[j] = "rejected" => src = <<j, "main", 1>>
            /\ st_energy[j].status = "done" => st_energy[j].round = src[3]
            /\ st_MOs[j].status = "done" => st_MOs[j].round = src[3]

C28_Witness ==
    \E j \in FrameIdx, id \in JobIds :
        /\ RestartsFrom(id, j) /\ Started(id)
        /\ check[j] = "rejected"
        /\ st_energy[j].status = "done" /\ st_MOs[j].status = "done"

\* ------------------------------------------------------------------ C30
\* C30 (guess-only results are never persisted): a store node that has run
\* for a frame stored the result of a finished main job of the frame, and
\* keys of a frame are written only by a store node of the frame that has run.
C30_GuessOnlyNeverPersisted ==
    \A j \in FrameIdx :
        /\ st_MOs[j].status \in {"done", "failed"} =>
              /\ st_MOs[j].kind = "main"
              /\ JobDone(<<j, "main", st_MOs[j].round>>)
        /\ st_energy[j].status = "done" =>
              /\ st_energy[j].kind = "main"
              /\ JobDone(<<j, "main", st_energy[j].round>>)
        /\ (\E l \in Leaves : Written(j, l)) =>
              \/ st_MOs[j].status \in {"done", "failed"}
              \/ st_energy[j].status = "done"

C30_Witness ==
    \E j \in FrameIdx :
        /\ JobDone(<<j, "guess", 0>>) /\ JobDone(<<j, "guess", 1>>)
        /\ st_MOs[j].status = "done" /\ st_energy[j].status = "done"

====
